---- MODULE Spec2Model ----
(***************************************************************************)
(* Model of transport/websocketpeer.go: the websocket peer's two pumps     *)
(* (sendHandler / sendHandlerKeepAlive and recvHandler), the facade        *)
(* operations Send, TrySend and Close, and the channels that join them     *)
(* (wr, rd, closed, writerDone).                                           *)
(*                                                                         *)
(* Each goroutine is a program counter plus its locals; one action is one  *)
(* blocking point or one I/O call of the Go code.  The connection, the     *)
(* codec, the remote end and the application are the environment: their    *)
(* outcomes are drawn nondeterministically.  Variables marked "ghost"      *)
(* record history for the properties and are never read by an action's     *)
(* guard or by the program state it computes.                              *)
(***************************************************************************)
EXTENDS Integers, Sequences, FiniteSets, TLC

\* ------------------------------------------------------------- constants
\* const outQueueSize = 16: capacity of the wr channel.
outQueueSize == 16

\* sendTimeout, in model time units (the Go value is set outside this file).
sendTimeout == 2

\* ---------------------------------------------------------------- bounds
\* Messages the application may hand to Send in the small runs.
MaxSends == 2
\* Of those, how many the codec refuses to serialize.
MaxBad == 1
\* Data frames the remote may deliver to ReadMessage.
MaxFrames == 2
\* Calls beyond the queue capacity in the full-queue runs.
ExtraSends == 2
\* Concurrent callers of Send/TrySend in the full-queue runs.
NumCallers == 2
\* Ghost tick counter saturates here.
MaxTicks == 4

Callers == 1..NumCallers

\* ------------------------------------------------------------- messages
\* A wamp.Message is a record; id names it, good says whether the
\* serializer accepts it.  nil (the shutdown sentinel) is a record with
\* id <= 0; the id also remembers (ghost) who enqueued it.
NilClose == [id |-> 0, good |-> FALSE]
NilRecv == [id |-> -1, good |-> FALSE]
NoMsg == [id |-> -2, good |-> FALSE]

IsNil(m) == m.id <= 0

\* serializer.Serialize: message -> (bytes, err).  An error is <<"err">>.
Serialize(m) == IF m.good THEN <<"wamp", m.id>> ELSE <<"err">>

\* serializer.Deserialize: bytes -> (message, err).  An error is NoMsg.
Deserialize(b) ==
    IF Len(b) = 2 /\ b[1] = "wamp" THEN [id |-> b[2], good |-> TRUE] ELSE NoMsg

VARIABLES
    keepAlive,      \* NewWebsocketPeer's keepAlive # 0
    wr,             \* buffered channel wr: the queued items, head first
    closed,         \* channel closed has been closed
    writerDone,     \* channel writerDone has been closed
    rdClosed,       \* channel rd has been closed
    connClosed,     \* number of conn.Close() calls so far
    pendingPongs,   \* sendHandlerKeepAlive's atomic counter
    shpc, shMsg,    \* outbound pump: position, message in hand
    rhpc, rhMsg,    \* inbound pump: position, message in hand
    clpc,           \* Close(): position
    callers,        \* Send/TrySend callers: position, message, result
    budget,         \* environment: what the application/remote may still do
    nextId,         \* environment: id of the next message handed to Send
    rejected,       \* ghost: ids of the messages TrySend returned "blocked" for
    enq,            \* ghost: every item ever put on wr, in order
    deq,            \* ghost: number of items taken off wr
    written,        \* ghost: data frames written to the connection
    readSeq,        \* ghost: data-frame payloads ReadMessage returned
    delivered,      \* ghost: messages the application took from Recv()
    shExit,         \* ghost: why the outbound pump returned
    rhExit,         \* ghost: why the inbound pump returned
    queuedAtFail,   \* ghost: wr when ReadMessage failed (if budget.snap)
    ticks,          \* ghost: ticks received since the last pong
    pongSeen        \* ghost: a pong has been handled

vars == <<keepAlive, wr, closed, writerDone, rdClosed, connClosed, pendingPongs,
          shpc, shMsg, rhpc, rhMsg, clpc, callers, budget, nextId, rejected, enq, deq,
          written, readSeq, delivered, shExit, rhExit, queuedAtFail, ticks,
          pongSeen>>

sendVars == <<wr, enq, callers, budget, nextId, rejected>>
shVars == <<shpc, shMsg, writerDone, written, deq, shExit, pendingPongs, ticks>>
rhVars == <<rhpc, rhMsg, rdClosed, readSeq, delivered, rhExit, queuedAtFail>>

IdleCaller == [pc |-> "idle", msg |-> NoMsg, kind |-> "none", ret |-> "none",
               path |-> "none", timer |-> 0, waited |-> 0]

\* NewWebsocketPeer: fresh channels, both pumps started.
InitPeer ==
    /\ keepAlive \in BOOLEAN
    /\ wr = <<>>
    /\ closed = FALSE
    /\ writerDone = FALSE
    /\ rdClosed = FALSE
    /\ connClosed = 0
    /\ pendingPongs = 0
    /\ shpc = "recv"
    /\ shMsg = NoMsg
    /\ rhpc = "read"
    /\ rhMsg = NoMsg
    /\ clpc = "idle"
    /\ callers = [c \in Callers |-> IdleCaller]
    /\ nextId = 1
    /\ rejected = {}
    /\ enq = <<>>
    /\ deq = 0
    /\ written = <<>>
    /\ readSeq = <<>>
    /\ delivered = <<>>
    /\ shExit = "none"
    /\ rhExit = "none"
    /\ queuedAtFail = <<>>
    /\ ticks = 0
    /\ pongSeen = FALSE

\* ------------------------------------------------------------ channel wr
\* (mutant) the buffer takes one item fewer than outQueueSize
HasSpace_OneLess(q) == Len(q) < outQueueSize - 1

\* wr has room: make(chan wamp.Message, outQueueSize)
HasSpace(q) == Len(q) < outQueueSize

\* w.wr <- x
Enqueue(q, x) == Append(q, x)

\* (mutant) the receive yields the newest item instead of the oldest
Front_Newest(q) == q[Len(q)]

\* the item a receive from wr yields, and the queue it leaves
Front(q) == Head(q)
Dequeue(q) == Tail(q)

\* ------------------------------------------------------------ connection
\* conn.WriteMessage / WriteControl: fails once the connection is closed,
\* may fail at any time (the transport is the environment).
WriteOutcomes == IF connClosed > 0 THEN {FALSE} ELSE BOOLEAN

\* ----------------------------------------------------- Send and TrySend
\* The message a caller hands over: a fresh id; the codec may refuse it.
GoodChoices == IF budget.bad > 0 THEN BOOLEAN ELSE {TRUE}

Spend(g) == [budget EXCEPT !.sends = @ - 1, !.bad = IF g THEN @ ELSE @ - 1]

\* A call may start while Close() has not been called ("Do not call Send
\* after calling Close").
MayCall(c) == callers[c].pc = "idle" /\ clpc = "idle" /\ budget.sends > 0

\* Send: w.wr <- msg; return nil.  Completes at once when the buffer has
\* room, blocks in "send" otherwise.
SendCall(c) ==
    /\ MayCall(c)
    /\ \E g \in GoodChoices :
        LET m == [id |-> nextId, good |-> g] IN
        /\ budget' = Spend(g)
        /\ nextId' = nextId + 1
        /\ IF HasSpace(wr)
           THEN /\ wr' = Enqueue(wr, m)
                /\ enq' = Append(enq, m)
                /\ callers' = [callers EXCEPT ![c] = IdleCaller]
           ELSE /\ callers' = [callers EXCEPT ![c] =
                       [IdleCaller EXCEPT !.pc = "send", !.msg = m, !.kind = "send"]]
                /\ UNCHANGED <<wr, enq>>
    /\ UNCHANGED <<keepAlive, closed, connClosed, clpc, rejected>>
    /\ UNCHANGED shVars
    /\ UNCHANGED rhVars
    /\ UNCHANGED pongSeen

\* Send, blocked on a full buffer: the send completes when room appears.
SendUnblock(c) ==
    /\ callers[c].pc = "send"
    /\ HasSpace(wr)
    /\ wr' = Enqueue(wr, callers[c].msg)
    /\ enq' = Append(enq, callers[c].msg)
    /\ callers' = [callers EXCEPT ![c] = IdleCaller]
    /\ UNCHANGED <<keepAlive, closed, connClosed, clpc, budget, nextId, rejected>>
    /\ UNCHANGED shVars
    /\ UNCHANGED rhVars
    /\ UNCHANGED pongSeen

\* time.After(sendTimeout): the timer the second select arms.
ArmTimer == sendTimeout

\* (mutant) the first select does not return after its send and falls
\* through to the second select
TrySendCall_FallThrough(c) ==
    /\ MayCall(c)
    /\ \E g \in GoodChoices :
        LET m == [id |-> nextId, good |-> g] IN
        /\ budget' = Spend(g)
        /\ nextId' = nextId + 1
        /\ callers' = [callers EXCEPT ![c] =
                [IdleCaller EXCEPT !.pc = "try", !.msg = m, !.kind = "try",
                                   !.path = "slow", !.timer = ArmTimer]]
        /\ IF HasSpace(wr)
           THEN wr' = Enqueue(wr, m) /\ enq' = Append(enq, m)
           ELSE UNCHANGED <<wr, enq>>
    /\ UNCHANGED <<keepAlive, closed, connClosed, clpc, rejected>>
    /\ UNCHANGED shVars
    /\ UNCHANGED rhVars
    /\ UNCHANGED pongSeen

\* TrySend, first select: enqueue if there is room (return nil), else fall
\* to the second select with the timer armed.
TrySendCall(c) ==
    /\ MayCall(c)
    /\ \E g \in GoodChoices :
        LET m == [id |-> nextId, good |-> g] IN
        /\ budget' = Spend(g)
        /\ nextId' = nextId + 1
        /\ IF HasSpace(wr)
           THEN /\ wr' = Enqueue(wr, m)
                /\ enq' = Append(enq, m)
                /\ callers' = [callers EXCEPT ![c] =
                       [IdleCaller EXCEPT !.kind = "try", !.ret = "nil",
                                          !.path = "fast"]]
           ELSE /\ callers' = [callers EXCEPT ![c] =
                       [IdleCaller EXCEPT !.pc = "try", !.msg = m, !.kind = "try",
                                          !.path = "slow", !.timer = ArmTimer]]
                /\ UNCHANGED <<wr, enq>>
    /\ UNCHANGED <<keepAlive, closed, connClosed, clpc, rejected>>
    /\ UNCHANGED shVars
    /\ UNCHANGED rhVars
    /\ UNCHANGED pongSeen

\* TrySend, second select, case w.wr <- msg: return nil.
TrySendEnq(c) ==
    /\ callers[c].pc = "try"
    /\ HasSpace(wr)
    /\ wr' = Enqueue(wr, callers[c].msg)
    /\ enq' = Append(enq, callers[c].msg)
    /\ callers' = [callers EXCEPT ![c] =
           [IdleCaller EXCEPT !.kind = "try", !.ret = "nil", !.path = "slow"]]
    /\ UNCHANGED <<keepAlive, closed, connClosed, clpc, budget, nextId, rejected>>
    /\ UNCHANGED shVars
    /\ UNCHANGED rhVars
    /\ UNCHANGED pongSeen

\* TrySend, second select, case <-time.After(sendTimeout): return
\* errors.New("blocked").
TrySendTimeout(c) ==
    /\ callers[c].pc = "try"
    /\ callers[c].timer = 0
    /\ callers' = [callers EXCEPT ![c] =
           [IdleCaller EXCEPT !.kind = "try", !.ret = "blocked", !.path = "slow"]]
    /\ rejected' = rejected \cup {callers[c].msg.id}
    /\ UNCHANGED <<keepAlive, closed, connClosed, clpc, budget, nextId, wr, enq>>
    /\ UNCHANGED shVars
    /\ UNCHANGED rhVars
    /\ UNCHANGED pongSeen

\* One unit of time passes for the callers waiting in TrySend's second
\* select.  A timer that is due fires before more time passes.  The ghost
\* field waited counts the units a call has waited (it saturates one past
\* the timeout); a call that returns leaves only its kind, result and path
\* behind.
Advance ==
    /\ \E c \in Callers : callers[c].pc = "try"
    /\ \A c \in Callers : callers[c].pc = "try" => callers[c].timer > 0
    /\ callers' = [c \in Callers |->
          IF callers[c].pc = "try"
          THEN [callers[c] EXCEPT !.timer = @ - 1,
                                  !.waited = IF @ > sendTimeout THEN @ ELSE @ + 1]
          ELSE callers[c]]
    /\ UNCHANGED <<keepAlive, closed, connClosed, clpc, budget, nextId, rejected, wr, enq>>
    /\ UNCHANGED shVars
    /\ UNCHANGED rhVars
    /\ UNCHANGED pongSeen

\* (mutant) writerDone is closed but the pump goes on receiving
SH_Return_KeepGoing(why) ==
    /\ shpc' = "recv"
    /\ shMsg' = NoMsg
    /\ writerDone' = TRUE
    /\ shExit' = why

\* ------------------------------------------------------- outbound pump
\* return from sendHandler / sendHandlerKeepAlive: the deferred
\* close(w.writerDone) runs.
SH_Return(why) ==
    /\ shpc' = "done"
    /\ shMsg' = NoMsg
    /\ writerDone' = TRUE
    /\ shExit' = why

\* (mutant) a message the serializer refuses ends the pump
SH_Handle_ExitOnErr(m) ==
    IF IsNil(m)
    THEN SH_Return(IF m = NilClose THEN "nilClose" ELSE "nilRecv")
    ELSE IF Serialize(m) = <<"err">>
    THEN SH_Return("encodeErr")
    ELSE shpc' = "write" /\ shMsg' = m /\ UNCHANGED <<writerDone, shExit>>

\* What the pump does with the item it received from wr: nil ends it, a
\* message the serializer refuses is logged and skipped, any other message
\* is written next.
SH_Handle(m) ==
    IF IsNil(m)
    THEN SH_Return(IF m = NilClose THEN "nilClose" ELSE "nilRecv")
    ELSE IF Serialize(m) = <<"err">>
    THEN UNCHANGED <<shpc, shMsg, writerDone, shExit>>
    ELSE shpc' = "write" /\ shMsg' = m /\ UNCHANGED <<writerDone, shExit>>

\* for msg := range w.wr  /  case msg, open := <-w.wr
SH_Recv ==
    /\ shpc = "recv"
    /\ wr # <<>>
    /\ wr' = Dequeue(wr)
    /\ deq' = deq + 1
    /\ SH_Handle(Front(wr))
    /\ UNCHANGED <<keepAlive, closed, connClosed, clpc, callers, budget, nextId, rejected,
                   enq, written, pendingPongs, ticks, pongSeen>>
    /\ UNCHANGED <<rhpc, rhMsg, rdClosed>>
    /\ UNCHANGED <<readSeq, delivered, rhExit, queuedAtFail>>

\* (mutant) a failed write is skipped and the pump carries on
SH_Write_Swallow ==
    /\ shpc = "write"
    /\ \E ok \in WriteOutcomes :
        /\ written' = IF ok THEN Append(written, Serialize(shMsg)) ELSE written
        /\ shpc' = "recv"
        /\ shMsg' = NoMsg
        /\ UNCHANGED <<writerDone, shExit>>
    /\ UNCHANGED <<keepAlive, closed, connClosed, clpc, pendingPongs, ticks,
                   pongSeen, deq>>
    /\ UNCHANGED sendVars
    /\ UNCHANGED rhVars

\* w.conn.WriteMessage(w.payloadType, b): on error the pump returns.
SH_Write ==
    /\ shpc = "write"
    /\ \E ok \in WriteOutcomes :
        IF ok
        THEN /\ written' = Append(written, Serialize(shMsg))
             /\ shpc' = "recv"
             /\ shMsg' = NoMsg
             /\ UNCHANGED <<writerDone, shExit>>
        ELSE /\ SH_Return("writeErr")
             /\ UNCHANGED written
    /\ UNCHANGED <<keepAlive, closed, connClosed, clpc, pendingPongs, ticks,
                   pongSeen, deq>>
    /\ UNCHANGED sendVars
    /\ UNCHANGED rhVars

\* (mutant) the monitor gives up only after three missed pongs
KA_Tick_ThreeMissed ==
    /\ keepAlive
    /\ shpc = "recv"
    /\ ticks' = IF ticks < MaxTicks THEN ticks + 1 ELSE ticks
    /\ IF pendingPongs >= 3
       THEN /\ connClosed' = connClosed + 1
            /\ SH_Return("keepalive")
       ELSE /\ shpc' = "ping"
            /\ UNCHANGED <<connClosed, shMsg, writerDone, shExit>>
    /\ UNCHANGED <<keepAlive, closed, clpc, pendingPongs, pongSeen, deq, written>>
    /\ UNCHANGED sendVars
    /\ UNCHANGED rhVars

\* case <-ticker.C: atomic.LoadInt32(&pendingPongs) >= 2 closes the
\* websocket and returns; otherwise the ping is written next.
KA_Tick ==
    /\ keepAlive
    /\ shpc = "recv"
    /\ ticks' = IF ticks < MaxTicks THEN ticks + 1 ELSE ticks
    /\ IF pendingPongs >= 2
       THEN /\ connClosed' = connClosed + 1
            /\ SH_Return("keepalive")
       ELSE /\ shpc' = "ping"
            /\ UNCHANGED <<connClosed, shMsg, writerDone, shExit>>
    /\ UNCHANGED <<keepAlive, closed, clpc, pendingPongs, pongSeen, deq, written>>
    /\ UNCHANGED sendVars
    /\ UNCHANGED rhVars

\* w.conn.WriteMessage(websocket.PingMessage, pingMsg): on error return.
KA_Ping ==
    /\ shpc = "ping"
    /\ \E ok \in WriteOutcomes :
        IF ok
        THEN shpc' = "inc" /\ UNCHANGED <<shMsg, writerDone, shExit>>
        ELSE SH_Return("pingErr")
    /\ UNCHANGED <<keepAlive, closed, connClosed, clpc, pendingPongs, ticks,
                   pongSeen, deq, written>>
    /\ UNCHANGED sendVars
    /\ UNCHANGED rhVars

\* atomic.AddInt32(&pendingPongs, 1)
KA_Inc ==
    /\ shpc = "inc"
    /\ pendingPongs' = pendingPongs + 1
    /\ shpc' = "recv"
    /\ UNCHANGED <<keepAlive, closed, connClosed, clpc, ticks, pongSeen, deq,
                   written, shMsg, writerDone, shExit>>
    /\ UNCHANGED sendVars
    /\ UNCHANGED rhVars

\* The pong handler, run by ReadMessage in the inbound pump's goroutine:
\* atomic.StoreInt32(&pendingPongs, 0).
PongHandler ==
    /\ keepAlive
    /\ rhpc = "read"
    /\ connClosed = 0
    /\ pendingPongs' = 0
    /\ ticks' = 0
    /\ pongSeen' = TRUE
    /\ UNCHANGED <<keepAlive, closed, connClosed, clpc, deq, written, shpc, shMsg,
                   writerDone, shExit>>
    /\ UNCHANGED sendVars
    /\ UNCHANGED rhVars

\* -------------------------------------------------------- inbound pump
\* What ReadMessage may return: an error at any time (always, once the
\* connection is closed); while the connection is open also a close frame
\* or, while the remote has frames to send, a data frame that decodes
\* ("wamp") or does not ("junk").
ReadOutcomes ==
    {"err"} \cup
    (IF connClosed = 0
     THEN {"close"} \cup (IF budget.frames > 0 THEN {"wamp", "junk"} ELSE {})
     ELSE {})

\* (mutant) a frame that does not decode ends the inbound pump
RH_OnFrame_Exit(b) ==
    IF Deserialize(b) = NoMsg
    THEN rhpc' = "exit" /\ UNCHANGED rhMsg
    ELSE rhpc' = "deliver" /\ rhMsg' = Deserialize(b)

\* msg, err := w.serializer.Deserialize(b): on error log and continue,
\* else go on to hand msg to the application.
RH_OnFrame(b) ==
    IF Deserialize(b) = NoMsg
    THEN UNCHANGED <<rhpc, rhMsg>>
    ELSE rhpc' = "deliver" /\ rhMsg' = Deserialize(b)

\* msgType, b, err := w.conn.ReadMessage()
RH_Read ==
    /\ rhpc = "read"
    /\ \E out \in ReadOutcomes :
        CASE out = "err" ->
                /\ rhpc' = "readErr"
                /\ queuedAtFail' = IF budget.snap THEN wr ELSE <<>>
                /\ UNCHANGED <<rhMsg, readSeq, budget, rhExit>>
          [] out = "close" ->
                /\ rhpc' = "exit"
                /\ rhExit' = "closeFrame"
                /\ UNCHANGED <<rhMsg, readSeq, budget, queuedAtFail>>
          [] OTHER ->
                LET b == <<out, Len(readSeq) + 1>> IN
                /\ readSeq' = Append(readSeq, b)
                /\ budget' = [budget EXCEPT !.frames = @ - 1]
                /\ RH_OnFrame(b)
                /\ UNCHANGED <<rhExit, queuedAtFail>>
    /\ UNCHANGED <<keepAlive, closed, connClosed, clpc, wr, enq, callers, nextId, rejected,
                   rdClosed, delivered, pongSeen>>
    /\ UNCHANGED shVars

\* After a read error: select { case <-w.closed: ... default: ... }
RH_CheckClosed ==
    /\ rhpc = "readErr"
    /\ IF closed
       THEN rhpc' = "exit" /\ rhExit' = "closedErr"
       ELSE rhpc' = "sentinel" /\ UNCHANGED rhExit
    /\ UNCHANGED <<keepAlive, closed, connClosed, clpc, rhMsg, rdClosed, readSeq,
                   delivered, queuedAtFail, pongSeen>>
    /\ UNCHANGED sendVars
    /\ UNCHANGED shVars

\* w.wr <- nil (the default branch): blocks while the buffer is full.
RH_Sentinel ==
    /\ rhpc = "sentinel"
    /\ HasSpace(wr)
    /\ wr' = Enqueue(wr, NilRecv)
    /\ enq' = Append(enq, NilRecv)
    /\ rhpc' = "awaitWD"
    /\ UNCHANGED <<keepAlive, closed, connClosed, clpc, callers, budget, nextId, rejected,
                   rhMsg, rdClosed, readSeq, delivered, rhExit, queuedAtFail,
                   pongSeen>>
    /\ UNCHANGED shVars

\* (mutant) the inbound pump returns without awaiting writerDone
RH_AwaitWD_NoWait ==
    /\ rhpc = "awaitWD"
    /\ rhpc' = "exit"
    /\ rhExit' = "fallback"
    /\ UNCHANGED <<keepAlive, closed, connClosed, clpc, rhMsg, rdClosed, readSeq,
                   delivered, queuedAtFail, pongSeen>>
    /\ UNCHANGED sendVars
    /\ UNCHANGED shVars

\* <-w.writerDone, then return
RH_AwaitWD ==
    /\ rhpc = "awaitWD"
    /\ writerDone
    /\ rhpc' = "exit"
    /\ rhExit' = "fallback"
    /\ UNCHANGED <<keepAlive, closed, connClosed, clpc, rhMsg, rdClosed, readSeq,
                   delivered, queuedAtFail, pongSeen>>
    /\ UNCHANGED sendVars
    /\ UNCHANGED shVars

\* (mutant) the handoff hands the message over twice
Handoff_Twice(d, m) == Append(Append(d, m), m)

\* The handoff w.rd <- msg: the application takes msg from Recv().
Handoff(d, m) == Append(d, m)

\* select { case w.rd <- msg: ... }: delivered, read the next frame.
RH_Deliver ==
    /\ rhpc = "deliver"
    /\ delivered' = Handoff(delivered, rhMsg)
    /\ rhpc' = "read"
    /\ rhMsg' = NoMsg
    /\ UNCHANGED <<keepAlive, closed, connClosed, clpc, rdClosed, readSeq, rhExit,
                   queuedAtFail, pongSeen>>
    /\ UNCHANGED sendVars
    /\ UNCHANGED shVars

\* select { ... case <-w.closed: ... }: enter the one-second last try.
RH_Closed ==
    /\ rhpc = "deliver"
    /\ closed
    /\ rhpc' = "grace"
    /\ UNCHANGED <<keepAlive, closed, connClosed, clpc, rhMsg, rdClosed, readSeq,
                   delivered, rhExit, queuedAtFail, pongSeen>>
    /\ UNCHANGED sendVars
    /\ UNCHANGED shVars

\* inner select, case w.rd <- msg: delivered, then return.
RH_GraceDeliver ==
    /\ rhpc = "grace"
    /\ delivered' = Handoff(delivered, rhMsg)
    /\ rhpc' = "exit"
    /\ rhMsg' = NoMsg
    /\ rhExit' = "closedSent"
    /\ UNCHANGED <<keepAlive, closed, connClosed, clpc, rdClosed, readSeq,
                   queuedAtFail, pongSeen>>
    /\ UNCHANGED sendVars
    /\ UNCHANGED shVars

\* (mutant) the timeout case closes rd itself before returning
RH_GraceTimeout_ClosesRd ==
    /\ rhpc = "grace"
    /\ rhpc' = "exit"
    /\ rhMsg' = NoMsg
    /\ rhExit' = "closedDropped"
    /\ rdClosed' = TRUE
    /\ UNCHANGED <<keepAlive, closed, connClosed, clpc, readSeq,
                   delivered, queuedAtFail, pongSeen>>
    /\ UNCHANGED sendVars
    /\ UNCHANGED shVars

\* inner select, case <-time.After(time.Second): give up, then return.
RH_GraceTimeout ==
    /\ rhpc = "grace"
    /\ rhpc' = "exit"
    /\ rhMsg' = NoMsg
    /\ rhExit' = "closedDropped"
    /\ UNCHANGED <<keepAlive, closed, connClosed, clpc, rdClosed, readSeq,
                   delivered, queuedAtFail, pongSeen>>
    /\ UNCHANGED sendVars
    /\ UNCHANGED shVars

\* (mutant) recvHandler's deferred calls leave the connection alone
RH_Exit_NoConnClose ==
    /\ rhpc = "exit"
    /\ rdClosed' = TRUE
    /\ rhpc' = "done"
    /\ UNCHANGED <<keepAlive, closed, clpc, rhMsg, readSeq, delivered, rhExit,
                   queuedAtFail, pongSeen, connClosed>>
    /\ UNCHANGED sendVars
    /\ UNCHANGED shVars

\* The deferred calls of recvHandler: w.conn.Close(), then close(w.rd).
RH_Exit ==
    /\ rhpc = "exit"
    /\ connClosed' = connClosed + 1
    /\ rdClosed' = TRUE
    /\ rhpc' = "done"
    /\ UNCHANGED <<keepAlive, closed, clpc, rhMsg, readSeq, delivered, rhExit,
                   queuedAtFail, pongSeen>>
    /\ UNCHANGED sendVars
    /\ UNCHANGED shVars

\* ---------------------------------------------------------------- Close
\* Close() is called (once).
CL_Call ==
    /\ clpc = "idle"
    /\ clpc' = "enq"
    /\ UNCHANGED <<keepAlive, closed, connClosed, pongSeen>>
    /\ UNCHANGED sendVars
    /\ UNCHANGED shVars
    /\ UNCHANGED rhVars

\* w.wr <- nil: blocks while the buffer is full.
CL_Enq ==
    /\ clpc = "enq"
    /\ HasSpace(wr)
    /\ wr' = Enqueue(wr, NilClose)
    /\ enq' = Append(enq, NilClose)
    /\ clpc' = "wait"
    /\ UNCHANGED <<keepAlive, closed, connClosed, pongSeen, callers, budget, nextId, rejected>>
    /\ UNCHANGED shVars
    /\ UNCHANGED rhVars

\* (mutant) Close puts the sentinel on wr again while writerDone is open
CL_Wait_Resend ==
    /\ clpc = "wait"
    /\ clpc' = IF writerDone THEN "signal" ELSE "enq"
    /\ UNCHANGED <<keepAlive, closed, connClosed, pongSeen>>
    /\ UNCHANGED sendVars
    /\ UNCHANGED shVars
    /\ UNCHANGED rhVars

\* (mutant) Close does not await writerDone
CL_Wait_NoWait ==
    /\ clpc = "wait"
    /\ clpc' = "signal"
    /\ UNCHANGED <<keepAlive, closed, connClosed, pongSeen>>
    /\ UNCHANGED sendVars
    /\ UNCHANGED shVars
    /\ UNCHANGED rhVars

\* <-w.writerDone
CL_Wait ==
    /\ clpc = "wait"
    /\ writerDone
    /\ clpc' = "signal"
    /\ UNCHANGED <<keepAlive, closed, connClosed, pongSeen>>
    /\ UNCHANGED sendVars
    /\ UNCHANGED shVars
    /\ UNCHANGED rhVars

\* close(w.closed)
CL_Signal ==
    /\ clpc = "signal"
    /\ closed' = TRUE
    /\ clpc' = "ctrl"
    /\ UNCHANGED <<keepAlive, connClosed, pongSeen>>
    /\ UNCHANGED sendVars
    /\ UNCHANGED shVars
    /\ UNCHANGED rhVars

\* w.conn.WriteControl(websocket.CloseMessage, ...): errors are ignored.
CL_Ctrl ==
    /\ clpc = "ctrl"
    /\ clpc' = "connClose"
    /\ UNCHANGED <<keepAlive, closed, connClosed, pongSeen>>
    /\ UNCHANGED sendVars
    /\ UNCHANGED shVars
    /\ UNCHANGED rhVars

\* w.conn.Close()
CL_ConnClose ==
    /\ clpc = "connClose"
    /\ connClosed' = connClosed + 1
    /\ clpc' = "done"
    /\ UNCHANGED <<keepAlive, closed, pongSeen>>
    /\ UNCHANGED sendVars
    /\ UNCHANGED shVars
    /\ UNCHANGED rhVars

\* ------------------------------------------------------ specifications
\* The whole peer on a short run: the application sends a few messages,
\* either pump drains them, the remote sends a few frames and pongs, the
\* application reads them, and Close() or a read failure shuts the peer
\* down.  The queue never fills here (see SpecFull for that).
Init ==
    /\ InitPeer
    /\ budget = [sends |-> MaxSends, bad |-> MaxBad, frames |-> MaxFrames, snap |-> TRUE]

Next ==
    \/ \E c \in Callers : SendCall(c)
    \/ SH_Recv
    \/ SH_Write
    \/ KA_Tick
    \/ KA_Ping
    \/ KA_Inc
    \/ PongHandler
    \/ RH_Read
    \/ RH_CheckClosed
    \/ RH_Sentinel
    \/ RH_AwaitWD
    \/ RH_Deliver
    \/ RH_Closed
    \/ RH_GraceDeliver
    \/ RH_GraceTimeout
    \/ RH_Exit
    \/ CL_Call
    \/ CL_Enq
    \/ CL_Wait
    \/ CL_Signal
    \/ CL_Ctrl
    \/ CL_ConnClose

Spec == Init /\ [][Next]_vars

\* ------------------------------------------------- property vocabulary
\* s is an order-preserving subsequence of t.
RECURSIVE IsSubseq(_, _)
IsSubseq(s, t) ==
    IF s = <<>> THEN TRUE
    ELSE IF t = <<>> THEN FALSE
    ELSE IF Head(s) = Head(t) THEN IsSubseq(Tail(s), Tail(t))
    ELSE IsSubseq(s, Tail(t))

Range(s) == {s[i] : i \in 1..Len(s)}

\* The frames of the messages in q that the codec encodes, in q's order.
RECURSIVE FramesOf(_)
FramesOf(q) ==
    IF q = <<>> THEN <<>>
    ELSE IF ~IsNil(Head(q)) /\ Head(q).good
         THEN <<Serialize(Head(q))>> \o FramesOf(Tail(q))
         ELSE FramesOf(Tail(q))

\* The messages of q (the sentinels left out), in q's order.
RECURSIVE MsgsOf(_)
MsgsOf(q) ==
    IF q = <<>> THEN <<>>
    ELSE IF IsNil(Head(q)) THEN MsgsOf(Tail(q))
    ELSE <<Head(q)>> \o MsgsOf(Tail(q))

\* The messages the frames in r decode to (undecodable frames left out).
RECURSIVE DecodedOf(_)
DecodedOf(r) ==
    IF r = <<>> THEN <<>>
    ELSE IF Deserialize(Head(r)) = NoMsg THEN DecodedOf(Tail(r))
    ELSE <<Deserialize(Head(r))>> \o DecodedOf(Tail(r))

\* The items enqueued ahead of sentinel x (all of enq if x was never put).
Before(x) ==
    IF \E i \in 1..Len(enq) : enq[i] = x
    THEN SubSeq(enq, 1, (CHOOSE i \in 1..Len(enq) :
                            enq[i] = x /\ \A j \in 1..(i - 1) : enq[j] # x) - 1)
    ELSE enq

\* The items the pump has taken off wr so far.
Taken == SubSeq(enq, 1, deq)

\* Close() is at, or past, the write of its close control frame.
CloseFrameDue == clpc \in {"ctrl", "connClose", "done"}

\* ---------------------------------------------------------------- C1
\* C1: the data frames the outbound pump has written are, in order and
\* without repetition, frames of messages in the order they were put on
\* wr: written is an order-preserving subsequence of the frames of the
\* items taken off wr (every id is enqueued once, so a frame written twice
\* or out of order is not such a subsequence).  Holds for the plain and
\* the keepalive pump (keepAlive is either in Init).
C1_FifoOutbound ==
    /\ IsSubseq(written, FramesOf(Taken))
    /\ wr = SubSeq(enq, deq + 1, Len(enq))

\* Two frames written by the keepalive pump with a tick handled in between.
C1_Witness ==
    /\ keepAlive
    /\ Len(written) = 2
    /\ pendingPongs > 0
    /\ Len(MsgsOf(enq)) = 2

\* ---------------------------------------------------------------- C2
\* C2: the messages taken from Recv() are an order-preserving subsequence
\* of the decodings of the frames read from the connection, and no
\* message is delivered twice (frame k carries message k).
C2_FifoInbound ==
    /\ IsSubseq(delivered, DecodedOf(readSeq))
    /\ \A i, j \in 1..Len(delivered) : i # j => delivered[i] # delivered[j]

\* Two messages delivered in read order.
C2_Witness ==
    /\ Len(delivered) = 2
    /\ Len(readSeq) = 2

\* ---------------------------------------------------------------- C3
\* C3 as claimed: by the time Close() writes its close control frame,
\* every message enqueued ahead of Close's sentinel has been written to
\* the connection (read in the claim's favour: every message the codec
\* can encode).
C3_DrainAsClaimed ==
    CloseFrameDue => Range(FramesOf(Before(NilClose))) \subseteq Range(written)

\* C3 (amended): by the time Close() writes its close control frame the
\* outbound pump has returned, and if it returned by taking Close's
\* sentinel off wr (no write failed, no keepalive failure, the inbound
\* pump's sentinel was not ahead), the frames written are exactly the
\* frames of the encodable messages enqueued ahead of that sentinel, in
\* enqueue order.
C3_Drain ==
    CloseFrameDue =>
        /\ writerDone
        /\ shExit = "nilClose" => written = FramesOf(Before(NilClose))

\* Close() drained two messages and is past its control frame.
C3_Witness ==
    /\ clpc = "done"
    /\ shExit = "nilClose"
    /\ Len(written) = 2

\* ---------------------------------------------------------------- C6
\* C6 as claimed.  A tick is received every interval I, so a force-close
\* on the n-th tick received after the last pong lies more than (n-1)*I
\* and at most n*I after that pong: "at least 2*I and less than 3*I"
\* means the force-close comes on the third tick after the last pong.
C6_KeepaliveAsClaimed ==
    (shExit = "keepalive" /\ pongSeen) => ticks = 3

\* ---------------------------------------------------------------- C9
\* C9 as claimed: when the inbound pump has left through the fallback
\* path and closed rd, writerDone is closed and every message that was on
\* wr when the read failed has been written (read in the claim's favour:
\* every message the codec can encode).
C9_DrainAsClaimed ==
    (rhExit = "fallback" /\ rdClosed) =>
        /\ writerDone
        /\ Range(FramesOf(queuedAtFail)) \subseteq Range(written)

\* C9 (amended): when the inbound pump has left through the fallback path
\* and closed rd, writerDone is closed; and if the outbound pump returned
\* by taking the fallback sentinel off wr, the frames written are exactly
\* the frames of the encodable messages enqueued ahead of that sentinel,
\* which include those on wr when the read failed.
C9_DrainBeforeEnd ==
    (rhExit = "fallback" /\ rdClosed) =>
        /\ writerDone
        /\ shExit = "nilRecv" =>
              /\ written = FramesOf(Before(NilRecv))
              /\ IsSubseq(FramesOf(queuedAtFail), written)

\* The read failed with two messages queued; both were written before rd
\* was closed.
C9_Witness ==
    /\ rhExit = "fallback"
    /\ rdClosed
    /\ shExit = "nilRecv"
    /\ Len(MsgsOf(queuedAtFail)) = 2
    /\ Len(written) = 2

\* --------------------------------------------------------------- C10
\* C10: Close() runs in order.  The explicit-close signal is set only
\* once writerDone is closed and the outbound pump has returned; Close is
\* at or past its control-frame write only with the signal set, so that
\* write never overlaps a write of the pump; and Close closes the
\* connection only after that.
C10_CloseOrder ==
    /\ closed => (writerDone /\ shpc = "done")
    /\ CloseFrameDue <=> closed
    /\ clpc = "ctrl" => shpc \notin {"write", "ping", "inc"}
    /\ clpc \in {"idle", "enq", "wait"} => ~closed

\* Close() ran to its end after the pump had written a message.
C10_Witness ==
    /\ clpc = "done"
    /\ closed
    /\ shExit = "nilClose"
    /\ Len(written) >= 1

\* The inbound side on a longer stream: the remote sends one frame more
\* than in Spec, the application sends nothing, the plain pump only ever
\* sees a sentinel.
InitIn ==
    /\ InitPeer
    /\ keepAlive = FALSE
    /\ budget = [sends |-> 0, bad |-> 0, frames |-> MaxFrames + 1, snap |-> TRUE]

NextIn ==
    \/ SH_Recv
    \/ RH_Read
    \/ RH_CheckClosed
    \/ RH_Sentinel
    \/ RH_AwaitWD
    \/ RH_Deliver
    \/ RH_Closed
    \/ RH_GraceDeliver
    \/ RH_GraceTimeout
    \/ RH_Exit
    \/ CL_Call
    \/ CL_Enq
    \/ CL_Wait
    \/ CL_Signal
    \/ CL_Ctrl
    \/ CL_ConnClose

SpecIn == InitIn /\ [][NextIn]_vars

\* ---------------------------------------------------------------- C7
\* A step in which ReadMessage returned a data frame that does not decode.
JunkRead ==
    /\ rhpc = "read"
    /\ Len(readSeq') = Len(readSeq) + 1
    /\ Deserialize(readSeq'[Len(readSeq')]) = NoMsg

\* While the inbound pump is reading, the application has received every
\* well-formed frame read so far, in order; with a message in hand, every
\* one but that message.
AllGoodDelivered ==
    /\ rhpc = "read" => delivered = DecodedOf(readSeq)
    /\ rhpc \in {"deliver", "grace"} => Append(delivered, rhMsg) = DecodedOf(readSeq)

\* C7: a frame that fails to decode is dropped and nothing else happens:
\* the inbound pump goes on reading, rd is not closed, nothing is put on
\* wr, the connection is not closed, nothing is delivered for it; and the
\* well-formed frames read before and after it are all delivered in order.
C7_MalformedFrame ==
    /\ []AllGoodDelivered
    /\ [][JunkRead => /\ rhpc' = "read"
                      /\ rdClosed' = rdClosed
                      /\ wr' = wr
                      /\ enq' = enq
                      /\ connClosed' = connClosed
                      /\ delivered' = delivered]_vars

\* Frames good, junk, good were read; both good ones were delivered and
\* the peer is still open and reading.
C7_Witness ==
    /\ Len(readSeq) = 3
    /\ Deserialize(readSeq[1]) # NoMsg
    /\ Deserialize(readSeq[2]) = NoMsg
    /\ Deserialize(readSeq[3]) # NoMsg
    /\ delivered = <<Deserialize(readSeq[1]), Deserialize(readSeq[3])>>
    /\ rhpc = "read"
    /\ ~rdClosed
    /\ connClosed = 0

\* The peer with a queue that fills: callers hand over more messages than
\* wr holds, through Send and TrySend, while the plain pump drains, a
\* write may fail and the read may fail.  The codec accepts every message
\* and the remote sends no data frames here.  Each goroutine that can take
\* a step eventually does (weak fairness on the pumps' steps and on the
\* blocked callers); the application need not call, the read need not
\* fail, and time need not pass.
InitFull ==
    /\ InitPeer
    /\ keepAlive = FALSE
    /\ budget = [sends |-> outQueueSize + ExtraSends, bad |-> 0, frames |-> 0,
                 snap |-> FALSE]

NextFull ==
    \/ \E c \in Callers : SendCall(c)
    \/ \E c \in Callers : SendUnblock(c)
    \/ \E c \in Callers : TrySendCall(c)
    \/ \E c \in Callers : TrySendEnq(c)
    \/ \E c \in Callers : TrySendTimeout(c)
    \/ Advance
    \/ SH_Recv
    \/ SH_Write
    \/ RH_Read
    \/ RH_CheckClosed
    \/ RH_Sentinel
    \/ RH_AwaitWD
    \/ RH_Exit

FairFull ==
    /\ WF_vars(SH_Recv)
    /\ WF_vars(SH_Write)
    /\ WF_vars(RH_CheckClosed)
    /\ WF_vars(RH_Sentinel)
    /\ WF_vars(RH_AwaitWD)
    /\ WF_vars(RH_Exit)
    /\ \A c \in Callers : WF_vars(SendUnblock(c))
    /\ \A c \in Callers : WF_vars(TrySendEnq(c) \/ TrySendTimeout(c))
    /\ WF_vars(Advance)

SpecFull == InitFull /\ [][NextFull]_vars /\ FairFull

\* ---------------------------------------------------------------- C8
\* C8 as claimed: once ReadMessage has failed with Close() not called, the
\* inbound pump eventually returns and rd is closed.
C8_NoDeadlockAsClaimed ==
    (rhpc = "readErr" /\ clpc = "idle") ~> rdClosed

\* ---------------------------------------------------------------- C4
\* Nothing has been taken off wr and no sentinel sits on it: the queue
\* holds exactly the messages the callers have enqueued.
Undrained == deq = 0 /\ \A i \in 1..Len(enq) : ~IsNil(enq[i])

\* C4: a TrySend call never waits longer than sendTimeout; on an undrained
\* peer a call waits only when wr holds outQueueSize (16) messages, so the
\* calls made while fewer are queued succeed at once; the error is
\* returned only by a call that has waited exactly sendTimeout; and on an
\* undrained peer a call that had to wait ends with the error.
C4_Backpressure ==
    /\ [](\A c \in Callers : callers[c].pc = "try" =>
            /\ callers[c].waited <= sendTimeout
            /\ Undrained => Len(wr) = outQueueSize)
    /\ [][\A c \in Callers :
            (callers[c].pc = "try" /\ callers'[c].pc = "idle") =>
               /\ callers'[c].ret = "blocked" => callers[c].waited = sendTimeout
               /\ Undrained' => callers'[c].ret = "blocked"]_vars
    /\ [][\A c \in Callers :
            (callers[c].pc = "idle" /\ callers'[c].pc = "try") =>
               (~HasSpace(wr) /\ callers'[c].waited = 0)]_vars

\* Sixteen messages sit on the undrained queue and the seventeenth call, a
\* TrySend, has returned the error.
C4_Witness ==
    /\ Undrained
    /\ Len(wr) = outQueueSize
    /\ rejected = {outQueueSize + 1}
    /\ \E c \in Callers : callers[c].ret = "blocked"

\* ---------------------------------------------------------------- C5
\* C5: a message TrySend returned the error for is never on wr and never
\* written, and the call that returns the error leaves wr as it was; a
\* TrySend that returns nil, at once or after waiting, has put its message
\* on wr in that very step, once; no item is ever put on wr twice (the ids
\* of the items ever enqueued are all different).
C5_TrySendResult ==
    /\ [](/\ \A i \in 1..Len(enq) : enq[i].id \notin rejected
          /\ \A i \in 1..Len(written) : written[i][2] \notin rejected
          /\ Cardinality({enq[i].id : i \in 1..Len(enq)}) = Len(enq)
          /\ \A c \in Callers : callers[c].pc = "try" =>
                \A i \in 1..Len(enq) : enq[i].id # callers[c].msg.id)
    /\ [][\A c \in Callers :
            (callers[c].pc = "try" /\ callers'[c].pc = "idle") =>
               IF callers'[c].ret = "blocked"
               THEN wr' = wr /\ enq' = enq
               ELSE /\ callers'[c].ret = "nil"
                    /\ wr' = Append(wr, callers[c].msg)
                    /\ enq' = Append(enq, callers[c].msg)]_vars
    /\ [][(nextId' # nextId /\ \A c \in Callers : callers'[c].pc = "idle") =>
               /\ Len(enq') = Len(enq) + 1
               /\ enq'[Len(enq')].id = nextId
               /\ wr' = Append(wr, enq'[Len(enq')])]_vars

\* One TrySend has returned the error, another has succeeded after
\* waiting, and the pump has written a frame.
C5_Witness ==
    /\ rejected # {}
    /\ \E c \in Callers : callers[c].ret = "blocked"
    /\ \E c \in Callers : callers[c].ret = "nil" /\ callers[c].path = "slow"
    /\ Len(written) > 0

ClosesByClose == IF clpc = "done" THEN 1 ELSE 0
ClosesByRecv == IF rhpc = "done" THEN 1 ELSE 0
ClosesByKeepAlive == IF shExit = "keepalive" THEN 1 ELSE 0

TimesEnqueued(x) == Cardinality({i \in 1..Len(enq) : enq[i] = x})

InitEnd ==
    /\ InitPeer
    /\ keepAlive = FALSE
    /\ budget = [sends |-> outQueueSize + ExtraSends, bad |-> 0, frames |-> 0,
                 snap |-> FALSE]

NextEnd ==
    \/ \E c \in Callers : SendCall(c)
    \/ \E c \in Callers : SendUnblock(c)
    \/ SH_Recv
    \/ SH_Write
    \/ RH_Read
    \/ RH_CheckClosed
    \/ RH_Sentinel
    \/ RH_AwaitWD
    \/ RH_Exit
    \/ CL_Call
    \/ CL_Enq
    \/ CL_Wait
    \/ CL_Signal
    \/ CL_Ctrl
    \/ CL_ConnClose

FairEnd ==
    /\ WF_vars(SH_Recv)
    /\ WF_vars(SH_Write)
    /\ WF_vars(RH_Read /\ (writerDone \/ connClosed > 0))
    /\ WF_vars(RH_CheckClosed)
    /\ WF_vars(RH_Sentinel)
    /\ WF_vars(RH_AwaitWD)
    /\ WF_vars(RH_Exit)
    /\ \A c \in Callers : WF_vars(SendUnblock(c))
    /\ WF_vars(CL_Enq)
    /\ WF_vars(CL_Wait)
    /\ WF_vars(CL_Signal)
    /\ WF_vars(CL_Ctrl)
    /\ WF_vars(CL_ConnClose)

SpecEnd == InitEnd /\ [][NextEnd]_vars /\ FairEnd

\* --------------------------------------------------------------- C13
\* C13 as claimed: once a data-frame write has failed (the outbound pump
\* has returned and closed writerDone), the inbound pump eventually
\* returns and rd is closed, without the application calling Close().
C13_FatalWriteAsClaimed ==
    (shExit = "writeErr" /\ writerDone) ~> (rdClosed \/ clpc # "idle")

\* --------------------------------------------------------------- C14
\* C14 as claimed: a caller blocked in Send on a full wr after the
\* connection has failed (the outbound pump has returned on a write
\* failure) eventually gets out of Send.
C14_SendUnblockedAsClaimed ==
    \A c \in Callers :
        (callers[c].pc = "send" /\ shExit = "writeErr") ~> (callers[c].pc # "send")

\* --------------------------------------------------------------- C15
\* C15 as claimed (its liveness part): once Close() has closed the
\* explicit-close signal, the inbound pump eventually returns and closes
\* rd, whether or not the application reads from Recv().
C15_BoundedShutdownAsClaimed == closed ~> rdClosed

\* --------------------------------------------------------------- C16
\* A step in which the pump takes a message off wr that the serializer
\* refuses.
EncodeFails ==
    /\ shpc = "recv"
    /\ deq' = deq + 1
    /\ ~IsNil(Front(wr))
    /\ Serialize(Front(wr)) = <<"err">>

\* C16: when Serialize fails for a dequeued message the pump writes
\* nothing, stays in its loop and leaves writerDone open; and the messages
\* around it are still written in order: as long as no write or ping has
\* failed and the keepalive monitor has not given up, the frames written
\* (with the one being written) are exactly the frames of the encodable
\* messages taken off wr, in enqueue order.  Plain and keepalive pump.
C16_EncodeFailure ==
    /\ [][EncodeFails => /\ shpc' = "recv"
                         /\ writerDone' = writerDone
                         /\ ~writerDone
                         /\ written' = written
                         /\ shExit' = "none"]_vars
    /\ [](/\ shExit \in {"none", "nilClose", "nilRecv"} =>
               (IF shpc = "write" THEN Append(written, Serialize(shMsg)) ELSE written)
                   = FramesOf(Taken)
          /\ \A i \in 1..Len(written) : Deserialize(written[i]) # NoMsg)

\* The keepalive pump dropped a message the serializer refused and wrote
\* the one queued behind it.
C16_Witness ==
    /\ keepAlive
    /\ Len(enq) >= 2
    /\ ~IsNil(enq[1]) /\ ~enq[1].good
    /\ ~IsNil(enq[2]) /\ enq[2].good
    /\ written = <<Serialize(enq[2])>>
    /\ ~writerDone

\* --------------------------------------------------------------- C17
\* C17 as claimed: a call of Close() eventually returns, in every
\* interleaving with the pumps and with earlier Send calls.
C17_CloseTerminatesAsClaimed == (clpc = "enq") ~> (clpc = "done")

\* --------------------------------------------------------------- C18
\* The steps that execute a close statement.
ClosesRd == rhpc = "exit" /\ rhpc' = "done"
ClosesWriterDone == shpc # "done" /\ shpc' = "done"
ClosesClosed == clpc = "signal" /\ clpc' = "ctrl"

C19_NothingAfterWriterDone ==
    /\ [][writerDone => /\ written' = written
                        /\ deq' = deq
                        /\ shpc' = "done"
                        /\ writerDone'
                        /\ IsSubseq(wr, wr')]_vars
    /\ [](writerDone =>
            /\ shpc = "done"
            /\ wr = SubSeq(enq, deq + 1, Len(enq))
            /\ Range(written) \cap Range(FramesOf(wr)) = {})

\* The pump wrote one message and returned on the inbound pump's
\* sentinel; a message sent after that sits on wr.
C19_Witness ==
    /\ writerDone
    /\ shExit = "nilRecv"
    /\ Len(written) = 1
    /\ Len(wr) = 1
    /\ ~IsNil(wr[1]) /\ wr[1].good
    /\ \A c \in Callers : callers[c].pc = "idle"

\* --------------------------------------------------------------- C20
\* A step in which the keepalive pump handles a tick: it leaves its
\* select without taking anything off wr.
TickStep == shpc = "recv" /\ shpc' # "recv" /\ deq' = deq

\* C20: pendingPongs is 0, 1 or 2 in every reachable state, however the
\* pong handler's store interleaves with the tick case's load and add; a
\* tick that reads less than 2 goes on to write the ping and leaves the
\* connection alone, a tick that reads 2 closes the connection and
\* returns without a ping; the force-close happens in no other step.
C20_PendingPongs ==
    /\ [](/\ pendingPongs \in {0, 1, 2}
          /\ shpc \in {"ping", "inc"} => pendingPongs \in {0, 1}
          /\ shExit = "keepalive" => pendingPongs = 2)
    /\ [][TickStep =>
            IF pendingPongs < 2
            THEN /\ shpc' = "ping"
                 /\ connClosed' = connClosed
                 /\ ~writerDone'
            ELSE /\ pendingPongs = 2
                 /\ shpc' = "done"
                 /\ shExit' = "keepalive"
                 /\ connClosed' = connClosed + 1]_vars
    /\ [][(shExit' = "keepalive" /\ shExit # "keepalive") =>
            (TickStep /\ pendingPongs = 2)]_vars
    /\ [][shpc' = "ping" => (TickStep \/ shpc = "ping")]_vars

\* The monitor gave up on a tick that read 2, after a pong had reset the
\* counter earlier on.
C20_Witness ==
    /\ shExit = "keepalive"
    /\ pendingPongs = 2
    /\ pongSeen
    /\ connClosed >= 1

====
